---- MODULE Spec2Model ----
(***************************************************************************)
(* Model of server/src/http_objects.rs: the wire-level ComputeGraph, its   *)
(* serde (de)serialisation, the conversions to and from the data_model     *)
(* types, and IndexifyAPIError.  One request is followed at a time: what   *)
(* the request deserialised, converted, listed or failed with.             *)
(***************************************************************************)
EXTENDS Integers, Sequences, FiniteSets, TLC

\* ---------------------------------------------------------------- bounds
MaxTime == 2
MaxAccepted == 2

\* ------------------------------------------------------------- constants
BAD_REQUEST == 400
INTERNAL_SERVER_ERROR == 500
NOT_FOUND == 404
DefaultVersion == 0

None == [none |-> TRUE]
Ok(v) == [ok |-> TRUE, val |-> v]
Err(e) == [ok |-> FALSE, err |-> e]

\* ------------------------------------------------------ IndexifyAPIError
new(status_code, message) == [status_code |-> status_code, message |-> message]

bad_request(message) == new(BAD_REQUEST, message)

internal_error_str(e) == new(INTERNAL_SERVER_ERROR, e)

not_found(message) == new(NOT_FOUND, message)

from_serde_json_Error_as_internal(e) == internal_error_str(e)

from_serde_json_Error(e) == bad_request(e)

into_response(e) == [status |-> e.status_code, body |-> e.message]

\* ------------------------------------------------------------ node model
Names == {"a", "b"}
GraphNames == {"g", "h"}
DefaultPlacement == <<>>

ComputeFnFields == {"name", "fn_name", "description", "reducer"}
DynamicRouterFields == {"name", "source_fn", "description", "target_fns"}
KnownTags == {"dynamic_router", "compute_fn"}

\* A JSON node is a single-key object {tag: body}.
Tag(n) == CHOOSE t \in DOMAIN n : TRUE
Body(n) == n[Tag(n)]

\* #[derive(Deserialize)] on Node, ComputeFn and DynamicRouter: the key picks
\* the variant, an unknown key is an error, a missing field is an error and
\* fields the struct does not declare are ignored.
deserialize_Node_lenient(n) ==
    IF Tag(n) = "dynamic_router"
    THEN IF DynamicRouterFields \subseteq DOMAIN Body(n)
         THEN Ok([variant |-> "DynamicRouter",
                  val |-> [name |-> Body(n).name, source_fn |-> Body(n).source_fn,
                           description |-> Body(n).description,
                           target_fns |-> Body(n).target_fns]])
         ELSE Err("missing field")
    ELSE IF ComputeFnFields \subseteq DOMAIN Body(n)
         THEN Ok([variant |-> "ComputeFn",
                  val |-> [name |-> Body(n).name, fn_name |-> Body(n).fn_name,
                           description |-> Body(n).description,
                           reducer |-> Body(n).reducer]])
         ELSE Err("missing field")

deserialize_Node(n) ==
    IF Tag(n) \notin KnownTags THEN Err("unknown variant")
    ELSE IF Tag(n) = "dynamic_router"
    THEN IF DynamicRouterFields \subseteq DOMAIN Body(n)
         THEN Ok([variant |-> "DynamicRouter",
                  val |-> [name |-> Body(n).name, source_fn |-> Body(n).source_fn,
                           description |-> Body(n).description,
                           target_fns |-> Body(n).target_fns]])
         ELSE Err("missing field")
    ELSE IF ComputeFnFields \subseteq DOMAIN Body(n)
         THEN Ok([variant |-> "ComputeFn",
                  val |-> [name |-> Body(n).name, fn_name |-> Body(n).fn_name,
                           description |-> Body(n).description,
                           reducer |-> Body(n).reducer]])
         ELSE Err("missing field")

serialize_Node(node) ==
    IF node.variant = "DynamicRouter"
    THEN [dynamic_router |-> node.val]
    ELSE [compute_fn |-> node.val]

Node_name(node) == node.val.name

ComputeFn_into(val) ==
    [name |-> val.name, fn_name |-> val.fn_name, description |-> val.description,
     placement_constraints |-> DefaultPlacement, reducer |-> val.reducer]

ComputeFn_from(c) ==
    [name |-> c.name, fn_name |-> c.fn_name, description |-> c.description,
     reducer |-> c.reducer]

DynamicRouter_into_no_targets(val) ==
    [name |-> val.name, source_fn |-> val.source_fn,
     description |-> val.description, target_functions |-> <<>>]

DynamicRouter_into(val) ==
    [name |-> val.name, source_fn |-> val.source_fn,
     description |-> val.description, target_functions |-> val.target_fns]

DynamicRouter_from(d) ==
    [name |-> d.name, source_fn |-> d.source_fn,
     description |-> d.description, target_fns |-> d.target_functions]

Node_into(val) ==
    IF val.variant = "DynamicRouter"
    THEN [variant |-> "Router", val |-> DynamicRouter_into(val.val)]
    ELSE [variant |-> "Compute", val |-> ComputeFn_into(val.val)]

Node_from(node) ==
    IF node.variant = "Router"
    THEN [variant |-> "DynamicRouter", val |-> DynamicRouter_from(node.val)]
    ELSE [variant |-> "ComputeFn", val |-> ComputeFn_from(node.val)]

\* ----------------------------------------------------------- graph schema
GraphFields == {"name", "namespace", "description", "start_node", "nodes", "edges"}

\* Messages of the errors serde can stop at while reading the object j.
DeserializeErrors(j) ==
    (IF GraphFields \subseteq DOMAIN j THEN {} ELSE {"missing field"})
    \cup (IF "start_node" \in DOMAIN j /\ ~deserialize_Node(j.start_node).ok
          THEN {deserialize_Node(j.start_node).err} ELSE {})
    \cup (IF "nodes" \in DOMAIN j
          THEN {deserialize_Node(j.nodes[k]).err :
                  k \in {x \in DOMAIN j.nodes : ~deserialize_Node(j.nodes[x]).ok}}
          ELSE {})

\* #[derive(Deserialize)] on ComputeGraph; t is get_epoch_time_in_ms().
deserialize_ComputeGraph(j, t) ==
    IF DeserializeErrors(j) # {} THEN Err(DeserializeErrors(j))
    ELSE Ok([name |-> j.name, namespace |-> j.namespace,
             description |-> j.description,
             start_node |-> deserialize_Node(j.start_node).val,
             nodes |-> [k \in DOMAIN j.nodes |-> deserialize_Node(j.nodes[k]).val],
             edges |-> j.edges,
             created_at |-> IF "created_at" \in DOMAIN j THEN j.created_at ELSE t])

serialize_ComputeGraph(w) ==
    [name |-> w.name, namespace |-> w.namespace, description |-> w.description,
     start_node |-> serialize_Node(w.start_node),
     nodes |-> [k \in DOMAIN w.nodes |-> serialize_Node(w.nodes[k])],
     edges |-> w.edges, created_at |-> w.created_at]

into_data_model_checked(self, code_path, sha256_hash, size) ==
    Ok([name |-> self.name, namespace |-> self.namespace,
        description |-> self.description,
        start_fn |-> Node_into(self.start_node),
        version |-> DefaultVersion,
        code |-> [sha256_hash |-> sha256_hash, size |-> size, path |-> code_path],
        nodes |-> [k \in DOMAIN self.nodes |-> Node_into(self.nodes[k])],
        edges |-> [k \in DOMAIN self.edges \cap DOMAIN self.nodes |-> self.edges[k]],
        created_at |-> 0])

into_data_model_path_as_hash(self, code_path, sha256_hash, size) ==
    Ok([name |-> self.name, namespace |-> self.namespace,
        description |-> self.description,
        start_fn |-> Node_into(self.start_node),
        version |-> DefaultVersion,
        code |-> [sha256_hash |-> code_path, size |-> size, path |-> code_path],
        nodes |-> [k \in DOMAIN self.nodes |-> Node_into(self.nodes[k])],
        edges |-> self.edges,
        created_at |-> 0])

into_data_model_keep_created_at(self, code_path, sha256_hash, size) ==
    Ok([name |-> self.name, namespace |-> self.namespace,
        description |-> self.description,
        start_fn |-> Node_into(self.start_node),
        version |-> DefaultVersion,
        code |-> [sha256_hash |-> sha256_hash, size |-> size, path |-> code_path],
        nodes |-> [k \in DOMAIN self.nodes |-> Node_into(self.nodes[k])],
        edges |-> self.edges,
        created_at |-> self.created_at])

into_data_model(self, code_path, sha256_hash, size) ==
    Ok([name |-> self.name, namespace |-> self.namespace,
        description |-> self.description,
        start_fn |-> Node_into(self.start_node),
        version |-> DefaultVersion,
        code |-> [sha256_hash |-> sha256_hash, size |-> size, path |-> code_path],
        nodes |-> [k \in DOMAIN self.nodes |-> Node_into(self.nodes[k])],
        edges |-> self.edges,
        created_at |-> 0])

ComputeGraph_from(compute_graph) ==
    [name |-> compute_graph.name, namespace |-> compute_graph.namespace,
     description |-> compute_graph.description,
     start_node |-> Node_from(compute_graph.start_fn),
     nodes |-> [k \in DOMAIN compute_graph.nodes |-> Node_from(compute_graph.nodes[k])],
     edges |-> compute_graph.edges,
     created_at |-> compute_graph.created_at]

\* ----------------------------------------------------------------- inputs
JCompute(n, r) ==
    [compute_fn |-> [name |-> n, fn_name |-> "f", description |-> "d", reducer |-> r]]
\* as in test_compute_graph_with_router_deserialization, a router object may
\* carry a field the struct does not declare
JRouter(n, t) ==
    [dynamic_router |-> [name |-> n, source_fn |-> "a", description |-> "d",
                         target_fns |-> t, reducer |-> FALSE]]
JUnknown ==
    [unknown_kind |-> [name |-> "a", fn_name |-> "f", description |-> "d",
                       reducer |-> FALSE]]
JMissing == [compute_fn |-> [name |-> "a"]]

JsonNodeChoices ==
    {JCompute("a", FALSE), JCompute("b", TRUE),
     JRouter("a", <<"a", "b">>), JRouter("b", <<"b", "a">>), JUnknown}
JsonStartChoices ==
    {JCompute("a", FALSE), JRouter("b", <<"b", "a">>), JUnknown, JMissing}
JsonNodeMaps == UNION {[S -> JsonNodeChoices] : S \in SUBSET Names}
EdgeChoices ==
    {[x \in {} |-> <<>>],
     [x \in {"a"} |-> <<"b">>],
     [x \in {"a", "b"} |-> IF x = "a" THEN <<"a", "b">> ELSE <<"b", "a">>]}

Payloads ==
    {[name |-> gn, namespace |-> "ns", description |-> "d", start_node |-> s,
      nodes |-> ns, edges |-> e] :
        gn \in GraphNames, s \in JsonStartChoices, ns \in JsonNodeMaps,
        e \in EdgeChoices}
    \cup
    {[name |-> gn, namespace |-> "ns", description |-> "d", start_node |-> s,
      nodes |-> ns, edges |-> e, created_at |-> c] :
        gn \in GraphNames, s \in JsonStartChoices, ns \in JsonNodeMaps,
        e \in EdgeChoices, c \in 1..MaxTime}
    \cup
    {[name |-> "g", description |-> "d", start_node |-> JCompute("a", FALSE),
      nodes |-> [x \in {"a"} |-> JCompute("a", FALSE)],
      edges |-> [x \in {} |-> <<>>]]}

Descriptors ==
    {[sha256_hash |-> "h1", size |-> 1, path |-> "p1"],
     [sha256_hash |-> "h1", size |-> 1, path |-> "p2"],
     [sha256_hash |-> "h2", size |-> 2, path |-> "p1"]}

\* Graphs the persistence layer hands back: any version, any creation time,
\* compute nodes with or without placement constraints.
DMCompute(n, pcs, r) ==
    [variant |-> "Compute",
     val |-> [name |-> n, fn_name |-> "f", description |-> "d",
              placement_constraints |-> pcs, reducer |-> r]]
DMRouter(n, t) ==
    [variant |-> "Router",
     val |-> [name |-> n, source_fn |-> "a", description |-> "d",
              target_functions |-> t]]
DMNodeChoices ==
    {DMCompute("a", DefaultPlacement, FALSE), DMCompute("b", <<"gpu">>, TRUE),
     DMRouter("a", <<"b", "a">>)}
DMNodeMaps == UNION {[S -> DMNodeChoices] : S \in SUBSET Names}
StoredGraphs ==
    {[name |-> "g", namespace |-> "ns", description |-> "d", start_fn |-> s,
      version |-> v, code |-> c, nodes |-> ns, edges |-> e, created_at |-> t] :
        s \in {DMCompute("a", DefaultPlacement, FALSE), DMRouter("a", <<"b", "a">>)},
        v \in {DefaultVersion, DefaultVersion + 1},
        c \in {d \in Descriptors : d.path = "p1"},
        ns \in DMNodeMaps, e \in EdgeChoices, t \in {0, MaxTime}}

\* ------------------------------------------------------------------ state
VARIABLES
    now,        \* get_epoch_time_in_ms()
    pc,         \* where the request in hand stands
    json,       \* the submitted JSON object
    wire,       \* the deserialised http_objects::ComputeGraph
    supplied,   \* the (code_path, sha256_hash, size) passed to into_data_model
    dm,         \* the data_model::ComputeGraph in hand
    out,        \* the http_objects::ComputeGraph built from dm
    json_out,   \* its serialisation
    back,       \* into_data_model applied to out
    err,        \* the IndexifyAPIError in hand
    cause,      \* what raised it
    response,   \* what into_response reported
    accepted    \* (namespace, name, version) of every into_data_model result

vars == <<now, pc, json, wire, supplied, dm, out, json_out, back, err, cause,
          response, accepted>>

Init ==
    /\ now = 1
    /\ pc = "idle"
    /\ json = None /\ wire = None /\ supplied = None /\ dm = None
    /\ out = None /\ json_out = None /\ back = None
    /\ err = None /\ cause = "none" /\ response = None
    /\ accepted = <<>>

Key(g) == [namespace |-> g.namespace, name |-> g.name, version |-> g.version]

Tick ==
    /\ now < MaxTime
    /\ now' = now + 1
    /\ UNCHANGED <<pc, json, wire, supplied, dm, out, json_out, back, err, cause,
                   response, accepted>>

Deserialize(j) ==
    /\ pc = "idle"
    /\ json' = j
    /\ LET r == deserialize_ComputeGraph(j, now) IN
       IF r.ok
       THEN /\ wire' = r.val
            /\ pc' = "parsed"
            /\ UNCHANGED <<err, cause>>
       ELSE /\ \E e \in r.err : err' = from_serde_json_Error(e)
            /\ cause' = "serde_json"
            /\ pc' = "failed"
            /\ UNCHANGED wire
    /\ UNCHANGED <<now, supplied, dm, out, json_out, back, response, accepted>>

IntoDataModel(d) ==
    /\ pc = "parsed"
    /\ Len(accepted) < MaxAccepted
    /\ supplied' = d
    /\ LET r == into_data_model(wire, d.path, d.sha256_hash, d.size) IN
       IF r.ok
       THEN /\ dm' = r.val
            /\ accepted' = Append(accepted, Key(r.val))
            /\ pc' = "converted"
            /\ UNCHANGED <<err, cause>>
       ELSE /\ err' = r.err
            /\ cause' = "into_data_model"
            /\ pc' = "failed"
            /\ UNCHANGED <<dm, accepted>>
    /\ UNCHANGED <<now, json, wire, out, json_out, back, response>>

LoadStored(g) ==
    /\ pc = "idle"
    /\ dm' = g
    /\ pc' = "loaded"
    /\ UNCHANGED <<now, json, wire, supplied, out, json_out, back, err, cause,
                   response, accepted>>

ToWire ==
    /\ pc \in {"converted", "loaded"}
    /\ out' = ComputeGraph_from(dm)
    /\ pc' = "listed"
    /\ UNCHANGED <<now, json, wire, supplied, dm, json_out, back, err, cause,
                   response, accepted>>

Serialize ==
    /\ pc = "listed"
    /\ json_out' = serialize_ComputeGraph(out)
    /\ pc' = "serialized"
    /\ UNCHANGED <<now, json, wire, supplied, dm, out, back, err, cause,
                   response, accepted>>

Resubmit ==
    /\ pc = "listed"
    /\ Len(accepted) < MaxAccepted
    /\ LET r == into_data_model(out, dm.code.path, dm.code.sha256_hash, dm.code.size) IN
       IF r.ok
       THEN /\ back' = r.val
            /\ accepted' = Append(accepted, Key(r.val))
            /\ pc' = "resubmitted"
            /\ UNCHANGED <<err, cause>>
       ELSE /\ err' = r.err
            /\ cause' = "into_data_model"
            /\ pc' = "failed"
            /\ UNCHANGED <<back, accepted>>
    /\ UNCHANGED <<now, json, wire, supplied, dm, out, json_out, response>>

RaiseInternal(m) ==
    /\ pc = "idle"
    /\ err' = internal_error_str(m)
    /\ cause' = "collaborator"
    /\ pc' = "failed"
    /\ UNCHANGED <<now, json, wire, supplied, dm, out, json_out, back, response,
                   accepted>>

RaiseNotFound(m) ==
    /\ pc = "idle"
    /\ err' = not_found(m)
    /\ cause' = "absent"
    /\ pc' = "failed"
    /\ UNCHANGED <<now, json, wire, supplied, dm, out, json_out, back, response,
                   accepted>>

IntoResponse ==
    /\ pc = "failed"
    /\ response' = into_response(err)
    /\ pc' = "responded"
    /\ UNCHANGED <<now, json, wire, supplied, dm, out, json_out, back, err, cause,
                   accepted>>

\* The request returns and its values are dropped.
EndRequest ==
    /\ pc \in {"responded", "serialized", "resubmitted", "converted", "listed"}
    /\ pc' = "idle"
    /\ json' = None /\ wire' = None /\ supplied' = None /\ dm' = None
    /\ out' = None /\ json_out' = None /\ back' = None
    /\ err' = None /\ cause' = "none" /\ response' = None
    /\ UNCHANGED <<now, accepted>>

Next ==
    \/ Tick
    \/ \E j \in Payloads : Deserialize(j)
    \/ \E d \in Descriptors : IntoDataModel(d)
    \/ \E g \in StoredGraphs : LoadStored(g)
    \/ ToWire
    \/ Serialize
    \/ Resubmit
    \/ \E m \in {"storage unavailable"} : RaiseInternal(m)
    \/ \E m \in {"graph not found"} : RaiseNotFound(m)
    \/ IntoResponse
    \/ EndRequest

Spec == Init /\ [][Next]_vars

\* ------------------------------------------------------------ properties
FromSubmission == wire # None
HasDm == pc \in {"converted", "listed", "serialized", "resubmitted"} /\ FromSubmission
HasOut == pc \in {"listed", "serialized", "resubmitted"}
Rejected == pc \in {"failed", "responded"} /\ wire = None /\ dm = None

JsonNodes(j) == {j.start_node} \cup {j.nodes[k] : k \in DOMAIN j.nodes}
WireVariantOf(tag) == IF tag = "compute_fn" THEN "ComputeFn" ELSE "DynamicRouter"
DmVariantOf(tag) == IF tag = "compute_fn" THEN "Compute" ELSE "Router"
TagOf(variant) == IF variant = "Compute" THEN "compute_fn" ELSE "dynamic_router"

Dangling(w) ==
    /\ \E k \in DOMAIN w.edges : k \notin DOMAIN w.nodes
    /\ \E k \in DOMAIN w.edges : \E i \in DOMAIN w.edges[k] :
          w.edges[k][i] \notin DOMAIN w.nodes
    /\ Node_name(w.start_node) \notin DOMAIN w.nodes

\* Equality of code artifacts as section 4.4 of the specification defines it:
\* by content hash alone.
SameArtifact(c1, c2) == c1.sha256_hash = c2.sha256_hash

\* C1: a stored graph converted to the wire form and back with its own code
\* path, hash and size equals the stored graph on every field but version
\* and created_at, every field of every node included.
C1_RoundTripInternal ==
    pc = "resubmitted" =>
        [back EXCEPT !.version = dm.version, !.created_at = dm.created_at] = dm

\* C2: a wire graph converted with into_data_model and back to the wire form
\* keeps name, namespace, description, start_node, nodes and edges.
C2_RoundTripWire ==
    (HasOut /\ FromSubmission) =>
        /\ out.name = wire.name
        /\ out.namespace = wire.namespace
        /\ out.description = wire.description
        /\ out.start_node = wire.start_node
        /\ DOMAIN out.nodes = DOMAIN wire.nodes
        /\ \A k \in DOMAIN wire.nodes : out.nodes[k] = wire.nodes[k]
        /\ DOMAIN out.edges = DOMAIN wire.edges
        /\ \A k \in DOMAIN wire.edges : out.edges[k] = wire.edges[k]

C2_Witness ==
    /\ pc = "listed" /\ FromSubmission
    /\ \E k \in DOMAIN wire.nodes :
          /\ wire.nodes[k].variant = "DynamicRouter"
          /\ Len(wire.nodes[k].val.target_fns) = 2
    /\ \E k \in DOMAIN wire.nodes : wire.nodes[k].variant = "ComputeFn"
    /\ \E k \in DOMAIN wire.edges : Len(wire.edges[k]) = 2
    /\ out.created_at # wire.created_at

\* C3: the tag alone decides the variant on the way in and on the way out,
\* and a submission holding a node with any other tag is rejected as a
\* client fault: it is neither dropped nor mapped to a known variant.
C3_VariantExhaustive ==
    /\ FromSubmission =>
          /\ \A n \in JsonNodes(json) : Tag(n) \in KnownTags
          /\ wire.start_node.variant = WireVariantOf(Tag(json.start_node))
          /\ DOMAIN wire.nodes = DOMAIN json.nodes
          /\ \A k \in DOMAIN json.nodes :
                wire.nodes[k].variant = WireVariantOf(Tag(json.nodes[k]))
    /\ HasDm =>
          /\ dm.start_fn.variant = DmVariantOf(Tag(json.start_node))
          /\ DOMAIN dm.nodes = DOMAIN json.nodes
          /\ \A k \in DOMAIN json.nodes :
                dm.nodes[k].variant = DmVariantOf(Tag(json.nodes[k]))
    /\ pc = "serialized" =>
          /\ Tag(json_out.start_node) = TagOf(dm.start_fn.variant)
          /\ DOMAIN json_out.nodes = DOMAIN dm.nodes
          /\ \A k \in DOMAIN dm.nodes :
                Tag(json_out.nodes[k]) = TagOf(dm.nodes[k].variant)
    /\ (json # None /\ \E n \in JsonNodes(json) : Tag(n) \notin KnownTags) =>
          /\ Rejected
          /\ cause = "serde_json"
          /\ err.status_code = BAD_REQUEST
          /\ pc = "responded" => response.status = BAD_REQUEST

C3_Witness ==
    /\ pc = "responded"
    /\ json # None
    /\ \E k \in DOMAIN json.nodes : Tag(json.nodes[k]) = "unknown_kind"
    /\ Tag(json.start_node) \in KnownTags

\* C4: every node of a graph produced from a submission is stored under its
\* own name; a submission with a node under another key is rejected.
C4_NameConsistency ==
    /\ HasDm => \A k \in DOMAIN dm.nodes : Node_name(dm.nodes[k]) = k
    /\ (json # None /\ "nodes" \in DOMAIN json
        /\ \E k \in DOMAIN json.nodes :
              "name" \in DOMAIN Body(json.nodes[k]) /\ Body(json.nodes[k]).name # k)
          => ~HasDm

\* C5: under one (namespace, name) the versions of successive into_data_model
\* results are strictly increasing.
C5_VersionMonotonic ==
    \A i, j \in DOMAIN accepted :
        (i < j /\ accepted[i].namespace = accepted[j].namespace
               /\ accepted[i].name = accepted[j].name)
            => accepted[i].version < accepted[j].version

\* C6: a submission without created_at is accepted, the graph made from it
\* carries the time of submission, and every serialised graph has created_at.
C6_CreatedAtServerAssigned ==
    /\ (json # None /\ "created_at" \notin DOMAIN json /\ DeserializeErrors(json) = {})
          => FromSubmission
    /\ (HasDm /\ "created_at" \notin DOMAIN json) =>
          /\ wire.created_at \in 1..MaxTime
          /\ dm.created_at = wire.created_at
    /\ pc = "serialized" => "created_at" \in DOMAIN json_out

\* C7: an error from malformed input is BAD_REQUEST, the three kinds have
\* three different status codes, and into_response reports the status code
\* and message the error was built with.
C7_ErrorKinds ==
    /\ cause = "serde_json" =>
          /\ err.status_code = BAD_REQUEST
          /\ err.status_code \notin {INTERNAL_SERVER_ERROR, NOT_FOUND}
    /\ cause = "collaborator" => err.status_code = INTERNAL_SERVER_ERROR
    /\ cause = "absent" => err.status_code = NOT_FOUND
    /\ Cardinality({bad_request("m").status_code, internal_error_str("m").status_code,
                    not_found("m").status_code}) = 3
    /\ pc = "responded" =>
          /\ response.status = err.status_code
          /\ response.body = err.message

C7_Witness ==
    /\ pc = "responded"
    /\ cause = "serde_json"
    /\ response.status = BAD_REQUEST

\* C8: into_data_model checks no reference: a graph with edges or a start
\* node naming no node converts without error and keeps the submitted edge
\* map and start node as they are.
C8_NoReferentialCheck ==
    /\ cause # "into_data_model"
    /\ (pc = "parsed" /\ Dangling(wire)) =>
          \A d \in Descriptors :
              into_data_model(wire, d.path, d.sha256_hash, d.size).ok
    /\ HasDm =>
          /\ dm.edges = json.edges
          /\ dm.start_fn.variant = DmVariantOf(Tag(json.start_node))
          /\ Node_name(dm.start_fn) = Body(json.start_node).name

C8_Witness ==
    /\ pc = "converted" /\ FromSubmission
    /\ Dangling(wire)
    /\ dm.edges = json.edges

\* C9: the graph made by into_data_model carries exactly the supplied hash,
\* size and path, and descriptors with the same hash and another path give
\* graphs bound to the same code artifact.
C9_ArtifactIdentity ==
    pc = "converted" =>
        /\ dm.code = supplied
        /\ \A d \in Descriptors :
              d.sha256_hash = supplied.sha256_hash =>
                  SameArtifact(
                      into_data_model(wire, d.path, d.sha256_hash, d.size).val.code,
                      dm.code)

C9_Witness ==
    /\ pc = "converted"
    /\ supplied.path = "p2"
    /\ \E d \in Descriptors :
          d.sha256_hash = supplied.sha256_hash /\ d.path # supplied.path

\* C10: into_data_model always returns Ok, with created_at 0 and the default
\* version, whatever created_at the wire graph carries.
C10_TotalIgnoresCreatedAt ==
    /\ cause # "into_data_model"
    /\ pc = "parsed" =>
          \A d \in Descriptors :
              into_data_model(wire, d.path, d.sha256_hash, d.size).ok
    /\ HasDm =>
          /\ dm.created_at = 0
          /\ dm.version = DefaultVersion
          /\ \A t \in 0..MaxTime :
                into_data_model([wire EXCEPT !.created_at = t], supplied.path,
                                supplied.sha256_hash, supplied.size).val = dm
    /\ pc = "resubmitted" =>
          /\ back.created_at = 0
          /\ back.version = DefaultVersion

C10_Witness ==
    /\ pc = "converted" /\ FromSubmission
    /\ wire.created_at = MaxTime
    /\ dm.created_at = 0

====
